---- MODULE Spec2Model ----
(***************************************************************************)
(* Model of the customer-support bot of src/main.py: the guardrail filter, *)
(* the FAQ matcher, the order-lookup tool, BotAgent.handle's routing, the  *)
(* HumanAgent hand-off and the CLI loop that drives them.                  *)
(*                                                                         *)
(* Text that the program inspects (user input, keywords, FAQ keys, order   *)
(* ids) is a sequence of one-character strings, so that lower-casing,      *)
(* stripping, substring search and the order-id regular expression are     *)
(* computed character by character.  Text that the program only builds and *)
(* hands on (messages) is a sequence of pieces whose concatenation is the  *)
(* string; an f-string is the \o of its pieces.                            *)
(*                                                                         *)
(* A log entry keeps event_type and the payload keys that identify the     *)
(* event (reason, faq, tool, order_id, from, to, error).  The timestamp    *)
(* and the copy of the user input that the payload echoes are left out.    *)
(***************************************************************************)
EXTENDS Integers, Sequences, FiniteSets, TLC

VARIABLES model_settings, orders, log, pc, user, response, handoff_context, printed, turns, mark

vars == <<model_settings, orders, log, pc, user, response, handoff_context, printed, turns, mark>>

\* Number of input lines the CLI loop answers before the session ends.
MaxTurns == 2

\* Python's None, as a value comparable with the strings it is compared to.
None == "<None>"

-----------------------------------------------------------------------------
(* Characters and the str methods the program uses *)

UpperLetters == <<"A","B","C","D","E","F","G","H","I","J","K","L","M","N","O","P","Q","R","S","T","U","V","W","X","Y","Z">>

LowerLetters == <<"a","b","c","d","e","f","g","h","i","j","k","l","m","n","o","p","q","r","s","t","u","v","w","x","y","z">>

Digits == {"0","1","2","3","4","5","6","7","8","9"}

Whitespace == {" ", "\t", "\n"}

Range(s) == {s[i] : i \in 1..Len(s)}

\* the regex class [A-Z]
UpperChars == Range(UpperLetters)

\* the regex word characters, [A-Za-z0-9_]
WordChars == Range(UpperLetters) \cup Range(LowerLetters) \cup Digits \cup {"_"}

IsUpper(c) == c \in UpperChars

IsWordChar(c) == c \in WordChars

SetMin(S) == CHOOSE x \in S : \A y \in S : x <= y

SetMax(S) == CHOOSE x \in S : \A y \in S : y <= x

lower_char(c) == IF IsUpper(c) THEN LowerLetters[CHOOSE i \in 1..26 : UpperLetters[i] = c] ELSE c

\* str.lower()
str_lower(text) == [i \in 1..Len(text) |-> lower_char(text[i])]

\* str.strip()
str_strip(text) == LET keep == {i \in 1..Len(text) : text[i] \notin Whitespace} IN IF keep = {} THEN <<>> ELSE SubSeq(text, SetMin(keep), SetMax(keep))

\* Python's `w in text` on strings
Contains(w, text) == \E i \in 1..(Len(text) - Len(w) + 1) : SubSeq(text, i, i + Len(w) - 1) = w

\* ', '.join(items)
RECURSIVE join_comma(_)
join_comma(items) == IF Len(items) = 0 THEN <<>> ELSE IF Len(items) = 1 THEN <<items[1]>> ELSE <<items[1], ", ">> \o join_comma(Tail(items))

-----------------------------------------------------------------------------
(* log_event: the entry appended to the log file *)

log_event(event_type, payload) == [event_type |-> event_type, payload |-> payload]

-----------------------------------------------------------------------------
(* Guardrails *)

OFFENSIVE_WORDS == {<<"i","d","i","o","t">>, <<"s","t","u","p","i","d">>, <<"h","a","t","e">>, <<"k","i","l","l">>, <<"d","a","m","n">>, <<"s","h","u","t"," ","u","p">>}

NEGATIVE_WORDS == {<<"a","n","g","r","y">>, <<"u","p","s","e","t">>, <<"u","n","h","a","p","p","y">>, <<"n","o","t"," ","h","a","p","p","y">>, <<"c","o","m","p","l","a","i","n">>, <<"b","a","d">>, <<"t","e","r","r","i","b","l","e">>}

\* mutant: the keywords are searched in the text as typed
detect_case_sensitive(text) == [offensive |-> \E w \in OFFENSIVE_WORDS : Contains(w, text), negative |-> \E w \in NEGATIVE_WORDS : Contains(w, text)]

detect_offensive_or_negative(text) == LET text_lower == str_lower(text) IN [offensive |-> \E w \in OFFENSIVE_WORDS : Contains(w, text_lower), negative |-> \E w \in NEGATIVE_WORDS : Contains(w, text_lower)]

GuardrailOutcome == [handled |-> TRUE, guardrail |-> TRUE, action |-> "block_or_rephrase", message |-> <<"I'm here to help, but I can't respond to offensive language. Could you rephrase your question?">>]

-----------------------------------------------------------------------------
(* The order tool *)

SIMULATED_ORDERS == (<<"A","1","0","0">> :> [status |-> "shipped", eta |-> "2025-09-04", items |-> <<"Blue T-shirt", "Cap">>, customer_id |-> "12345"]) @@ (<<"B","2","0","1">> :> [status |-> "processing", eta |-> "2025-09-10", items |-> <<"Coffee Mug">>, customer_id |-> "67890"]) @@ (<<"C","3","0","3">> :> [status |-> "delivered", eta |-> "2025-08-20", items |-> <<"Notebook">>, customer_id |-> "12345"])

\* the end of the run of digits that starts after position i (i itself when none)
DigitRunEnd(text, i) == SetMax({i} \cup {j \in (i+1)..Len(text) : \A k \in (i+1)..j : text[k] \in Digits})

\* \b[A-Z]\d{2,}\b matches at position i
OrderIdAt(text, i) == /\ IsUpper(text[i])
                      /\ (i = 1 \/ ~IsWordChar(text[i-1]))
                      /\ LET e == DigitRunEnd(text, i) IN e - i >= 2 /\ (e = Len(text) \/ ~IsWordChar(text[e+1]))

\* re.search finding no match (its None; a match is never empty)
NoMatch == <<>>

\* re.search(r"\b([A-Z]\d{2,})\b", text): group(1) of the leftmost match, or NoMatch
re_search_order_id(text) == LET at == {i \in 1..Len(text) : OrderIdAt(text, i)} IN IF at = {} THEN NoMatch ELSE SubSeq(text, SetMin(at), DigitRunEnd(text, SetMin(at)))

\* mutant: FunctionTool's default is_enabled, lambda query: True
order_tool_always_enabled(query) == TRUE

order_tool_enabled_predicate(query) == LET q == str_lower(query) IN Contains(<<"o","r","d","e","r">>, q) \/ re_search_order_id(query) # NoMatch

order_error_function(order_id) == [error |-> TRUE, message |-> <<"Order ID '">> \o order_id \o <<"' not found. Please check the ID or contact support.">>]

\* what get_order_status returns after the lookup (lines 111-114)
order_lookup_result(table, order_id) == IF order_id \notin DOMAIN table THEN [error |-> TRUE, message |-> <<"Order ">> \o order_id \o <<" not found.">>] ELSE [order_id |-> order_id, status |-> table[order_id].status, eta |-> table[order_id].eta, items |-> table[order_id].items, customer_id |-> table[order_id].customer_id]

\* mutant: tool_invoked is not logged
get_order_status_silent(table, user_input, order_id) == [emitted |-> <<>>, ret |-> order_lookup_result(table, order_id)]

\* mutant: tool_invoked is logged with the user input in place of the order id
get_order_status_logs_input(table, user_input, order_id) == [emitted |-> <<log_event("tool_invoked", [tool |-> "get_order_status", order_id |-> user_input])>>, ret |-> order_lookup_result(table, order_id)]

\* get_order_status: what it logs and what it returns
get_order_status(table, user_input, order_id) == [emitted |-> <<log_event("tool_invoked", [tool |-> "get_order_status", order_id |-> order_id])>>, ret |-> order_lookup_result(table, order_id)]

\* the FunctionTool descriptor registered by @function_tool
\* mutant: the tool is registered without error_function
tool_without_error_function == FALSE

tool_has_error_function == TRUE

-----------------------------------------------------------------------------
(* Agents *)

ToolChoices == {"auto", "required", "none"}

\* metadata given to ModelSettings: a customer_id that owns orders, one that owns none, an empty one, None, and no key at all
Metadatas == {[customer_id |-> "12345"], [customer_id |-> "99999"], [customer_id |-> ""], [customer_id |-> None], <<>>}

\* dict.get(key)
dict_get(d, key) == IF key \in DOMAIN d THEN d[key] ELSE None

\* truth value of a str-or-None
Truthy(v) == v # None /\ v # ""

\* BotAgent.faqs, in insertion order
faqs == <<[k |-> <<"w","h","a","t"," ","i","s"," ","y","o","u","r"," ","r","e","t","u","r","n"," ","p","o","l","i","c","y">>, a |-> <<"You can return items within 14 days of delivery for a full refund (item must be unused).">>], [k |-> <<"h","o","w"," ","t","o"," ","c","o","n","t","a","c","t"," ","s","u","p","p","o","r","t">>, a |-> <<"You can contact support at support@example.com or call +1-800-555-1234.">>], [k |-> <<"d","o"," ","y","o","u"," ","s","h","i","p"," ","i","n","t","e","r","n","a","t","i","o","n","a","l","l","y">>, a |-> <<"Yes, we ship to many countries. Shipping costs vary by destination.">>]>>

order_message(order_id, result) == <<"Order ">> \o order_id \o <<" is currently '", result.status, "'. ETA: ", result.eta, ". Items: ">> \o join_comma(result.items) \o <<".">>

\* mutant: the suffix is added for any non-empty customer_id
verified_customer_any(settings, result) == Truthy(dict_get(settings.metadata, "customer_id"))

\* line 162
verified_customer(settings, result) == Truthy(dict_get(settings.metadata, "customer_id")) /\ dict_get(settings.metadata, "customer_id") = result.customer_id

\* lines 153-165: an order id was extracted and the tool is called
tool_branch(settings, table, user_input, order_id) ==
  LET call   == get_order_status(table, user_input, order_id)
      result == call.ret
  IN IF "error" \in DOMAIN result /\ result.error
     THEN IF tool_has_error_function
          THEN LET err == order_error_function(order_id)
               IN [emitted |-> call.emitted \o <<log_event("tool_error", [tool |-> "get_order_status", order_id |-> order_id, error |-> err])>>,
                   ret |-> [handled |-> TRUE, message |-> err.message, tool_error |-> TRUE]]
          ELSE [emitted |-> call.emitted, ret |-> [handled |-> TRUE, message |-> result.message, tool_error |-> TRUE]]
     ELSE LET msg  == order_message(order_id, result)
              full == IF verified_customer(settings, result) THEN msg \o <<" (Verified customer)">> ELSE msg
          IN [emitted |-> call.emitted \o <<log_event("tool_success", [tool |-> "get_order_status", order_id |-> order_id])>>,
              ret |-> [handled |-> TRUE, message |-> full]]

\* lines 169-171
negative_outcome == [emitted |-> <<log_event("escalation", [reason |-> "negative_sentiment"])>>, ret |-> [handled |-> FALSE, handoff |-> TRUE, reason |-> "negative_sentiment", message |-> <<"I can see you're upset. I'll transfer you to a human agent for support.">>]]

\* line 172
prompt_outcome == [emitted |-> <<>>, ret |-> [handled |-> TRUE, message |-> <<"Could you please provide your order ID (format like A100) so I can check the status?">>]]

\* mutant: the negative check comes before the order id is looked for
order_lookup_negative_first(settings, table, user_input) ==
  LET order_id == re_search_order_id(user_input) IN
  IF detect_offensive_or_negative(user_input).negative THEN negative_outcome
  ELSE IF order_id # NoMatch THEN tool_branch(settings, table, user_input, order_id)
  ELSE prompt_outcome

\* lines 151-172: the tool is eligible and tool_choice allows it
order_lookup(settings, table, user_input) ==
  LET order_id == re_search_order_id(user_input) IN
  IF order_id # NoMatch THEN tool_branch(settings, table, user_input, order_id)
  ELSE IF detect_offensive_or_negative(user_input).negative THEN negative_outcome
  ELSE prompt_outcome

\* mutant: the last matching key wins
faq_hit_last(q) == LET hits == {i \in 1..Len(faqs) : Contains(faqs[i].k, q)} IN IF hits = {} THEN 0 ELSE SetMax(hits)

\* lines 138-139: the first FAQ key, in table order, contained in q (0 when none)
faq_hit(q) == LET hits == {i \in 1..Len(faqs) : Contains(faqs[i].k, q)} IN IF hits = {} THEN 0 ELSE SetMin(hits)

\* mutant: the `not` of line 146 is missing
required_and_enabled(settings, tool_enabled) == settings.tool_choice = "required" /\ tool_enabled

\* line 146
required_but_disabled(settings, tool_enabled) == settings.tool_choice = "required" /\ ~tool_enabled

\* mutant: the fallback outcome lacks the handoff flag
fallback_without_handoff == [emitted |-> <<log_event("escalation_reason", [reason |-> "unknown_or_complex"])>>, ret |-> [handled |-> FALSE, reason |-> "unknown_or_complex", message |-> <<"I'm not sure about that. I'll hand you over to a human agent.">>]]

\* lines 175-176
fallback_outcome == [emitted |-> <<log_event("escalation_reason", [reason |-> "unknown_or_complex"])>>, ret |-> [handled |-> FALSE, handoff |-> TRUE, reason |-> "unknown_or_complex", message |-> <<"I'm not sure about that. I'll hand you over to a human agent.">>]]

\* BotAgent.handle, the decorated body (lines 134-176)
handle_body(settings, table, user_input) ==
  LET q            == str_lower(str_strip(user_input))
      hit          == faq_hit(q)
      tool_enabled == order_tool_enabled_predicate(user_input)
  IN IF hit # 0
     THEN [emitted |-> <<log_event("faq_answered", [faq |-> faqs[hit].k])>>, ret |-> [handled |-> TRUE, message |-> faqs[hit].a]]
     ELSE IF required_but_disabled(settings, tool_enabled)
     THEN [emitted |-> <<log_event("escalation_reason", [reason |-> "tool_required_but_disabled"])>>,
           ret |-> [handled |-> FALSE, handoff |-> TRUE, reason |-> "tool_required_but_disabled", message |-> <<"I need to fetch order details but couldn't. Handing off to human agent.">>]]
     ELSE IF tool_enabled /\ settings.tool_choice \in {"auto", "required"}
     THEN order_lookup(settings, table, user_input)
     ELSE fallback_outcome

\* the @guardrail wrapper around BotAgent.handle (lines 59-69)
handle(settings, table, user_input) ==
  IF detect_offensive_or_negative(user_input).offensive
  THEN [emitted |-> <<log_event("guardrail_triggered", [reason |-> "offensive_language"])>>, ret |-> GuardrailOutcome]
  ELSE handle_body(settings, table, user_input)

\* HumanAgent.handle (the dash of the reply is written as a hyphen)
human_handle(context) ==
  LET user_input == IF "user_input" \in DOMAIN context THEN context.user_input ELSE <<>>
      reason     == IF "reason" \in DOMAIN context THEN context.reason ELSE "unspecified"
  IN [emitted |-> <<log_event("human_agent_received", [reason |-> reason])>>,
      ret |-> [handled |-> TRUE, message |-> <<"[Human Agent] Hello - I've received your request about: '">> \o user_input \o <<"'. Reason: ", reason, ". We'll assist you shortly.">>]]

-----------------------------------------------------------------------------
(* The lines typed at the prompt *)

Phrases == {<<"h","a","t","e">>, <<"D","A","M","N","a","t","i","o","n">>, <<"I"," ","a","m"," ","s","o"," ","a","n","g","r","y"," ","a","b","o","u","t"," ","t","h","i","s">>, <<"o","r","d","e","r">>, <<"A","1","0","0">>, <<"B","2","0","1">>, <<"Z","9","9","9">>, <<"a","1","0","0">>, <<"X","A","1","0","0">>, <<"w","h","a","t"," ","i","s"," ","y","o","u","r"," ","r","e","t","u","r","n"," ","p","o","l","i","c","y">>, <<"H","o","w"," ","T","o"," ","C","o","n","t","a","c","t"," ","S","u","p","p","o","r","t">>, <<"t","e","l","l"," ","m","e"," ","a"," ","j","o","k","e">>}

\* one phrase, two phrases separated by a space, a padded phrase, or nothing but blanks
Lines == Phrases \cup {a \o <<" ">> \o b : a \in Phrases, b \in Phrases} \cup {<<" "," ">> \o a \o <<" ">> : a \in {<<"o","r","d","e","r">>, <<"A","1","0","0">>}} \cup {<<>>, <<" "," ">>}

ExitWords == {<<"e","x","i","t">>, <<"q","u","i","t">>}

ExitLines == {<<"e","x","i","t">>, <<"Q","U","I","T"," ">>}

-----------------------------------------------------------------------------
(* The session: run_cli *)

NoResponse == [handled |-> FALSE]

NoContext == <<>>

NoPrint == [who |-> "nobody", message |-> <<>>]

Init == /\ model_settings \in [tool_choice : ToolChoices, metadata : Metadatas]
        /\ orders = SIMULATED_ORDERS
        /\ log = <<>>
        /\ pc = "input"
        /\ user = <<>>
        /\ response = NoResponse
        /\ handoff_context = NoContext
        /\ printed = NoPrint
        /\ turns = 0
        /\ mark = 0

\* lines 201-211: a line is read and stripped, and bot.handle answers it;
\* mark is the length of the log when bot.handle is called
Ask == /\ pc = "input"
       /\ turns < MaxTurns
       /\ \E line \in Lines :
            LET u == str_strip(line) IN
            /\ u # <<>>
            /\ str_lower(u) \notin ExitWords
            /\ LET call == handle(model_settings, orders, u) IN
               /\ user' = u
               /\ response' = call.ret
               /\ log' = log \o call.emitted
       /\ mark' = Len(log)
       /\ turns' = turns + 1
       /\ pc' = "dispatch"
       /\ UNCHANGED <<model_settings, orders, handoff_context, printed>>

\* lines 213-231: the response is printed, or handed to the human agent
Dispatch == /\ pc = "dispatch"
            /\ IF "handled" \in DOMAIN response /\ response.handled
               THEN /\ printed' = [who |-> "Bot", message |-> response.message]
                    /\ UNCHANGED <<log, handoff_context>>
               ELSE IF "handoff" \in DOMAIN response /\ response.handoff
               THEN LET context == [user_input |-> user, reason |-> dict_get(response, "reason"), metadata |-> model_settings.metadata]
                        call    == human_handle(context)
                    IN /\ handoff_context' = context
                       /\ log' = log \o <<log_event("handoff_initiated", [from |-> "BotAgent", to |-> "HumanAgent", reason |-> context.reason])>> \o call.emitted
                       /\ printed' = [who |-> "Human", message |-> call.ret.message]
               ELSE /\ printed' = [who |-> "Bot", message |-> <<"Sorry, I couldn't help with that.">>]
                    /\ UNCHANGED <<log, handoff_context>>
            /\ pc' = "printed"
            /\ UNCHANGED <<model_settings, orders, user, response, turns, mark>>

\* lines 216, 218, 229: `continue`; the locals of the iteration are dead at the top of the loop
Continue == /\ pc = "printed"
            /\ pc' = "input"
            /\ user' = <<>>
            /\ response' = NoResponse
            /\ handoff_context' = NoContext
            /\ printed' = NoPrint
            /\ UNCHANGED <<model_settings, orders, log, turns, mark>>

\* lines 205-206: an empty line is skipped
BlankLine == /\ pc = "input"
             /\ \E line \in Lines : str_strip(line) = <<>>
             /\ UNCHANGED vars

\* lines 202-204, 207-209: exit, quit or end of input ends the loop and run_cli returns
Quit == /\ pc = "input"
        /\ \E eof \in BOOLEAN : eof \/ \E line \in ExitLines : str_lower(str_strip(line)) \in ExitWords
        /\ pc' = "done"
        /\ UNCHANGED <<model_settings, orders, log, user, response, handoff_context, printed, turns, mark>>

Next == Ask \/ Dispatch \/ Continue \/ BlankLine \/ Quit

Spec == Init /\ [][Next]_vars

-----------------------------------------------------------------------------
(* Vocabulary of the properties *)

\* bot.handle has returned and its outcome has not been dispatched yet
Returned == pc = "dispatch"

\* the log entries appended since bot.handle was last called: its own while
\* Returned, and the hand-off's too once the outcome is dispatched
Emitted == SubSeq(log, mark + 1, Len(log))

EventTypes(entries) == [i \in 1..Len(entries) |-> entries[i].event_type]

\* w occurs in t as a substring
OccursIn(w, t) == \E i \in 0..(Len(t) - Len(w)) : \A k \in 1..Len(w) : t[i + k] = w[k]

HasOffensiveWord(u) == LET t == str_lower(u) IN \E w \in OFFENSIVE_WORDS : OccursIn(w, t)

HasNegativeWord(u) == LET t == str_lower(u) IN \E w \in NEGATIVE_WORDS : OccursIn(w, t)

HasFaqKey(u) == LET t == str_lower(str_strip(u)) IN \E i \in 1..Len(faqs) : OccursIn(faqs[i].k, t)

MentionsOrder(u) == OccursIn(<<"o","r","d","e","r">>, str_lower(u))

\* the order id the regular expression extracts from u, or NoMatch
ExtractedId(u) == re_search_order_id(u)

ToolAllowed == model_settings.tool_choice \in {"auto", "required"}

IsHandoff(r) == ~r.handled /\ "handoff" \in DOMAIN r /\ r.handoff

HandoffReasons == {"tool_required_but_disabled", "negative_sentiment", "unknown_or_complex"}

ToolInvokedIn(entries) == \E i \in 1..Len(entries) : entries[i].event_type = "tool_invoked"

\* items joined by ", " in table order
ItemsText(items) == [i \in 1..(2 * Len(items) - 1) |-> IF i % 2 = 1 THEN items[(i + 1) \div 2] ELSE ", "]

IsPrefix(s, t) == Len(s) <= Len(t) /\ SubSeq(t, 1, Len(s)) = s

-----------------------------------------------------------------------------
(* C1 *)

\* C1 as stated: every call of BotAgent.handle appends exactly one log entry,
\* whose event type names the branch taken.
C1_ExactlyOneLogEntry == Returned => /\ Len(log) = mark + 1
                                     /\ log[Len(log)].event_type \in {"guardrail_triggered", "faq_answered", "tool_success", "tool_error", "escalation_reason", "escalation"}

\* C1 as amended: every call of BotAgent.handle returns one Outcome and appends
\* one log entry naming the branch taken, except that a call of the order tool
\* appends tool_invoked before its tool_success or tool_error entry (two
\* entries), and the branch that asks for an order id appends none.
C1_LogEntriesPerCall == Returned =>
  LET types == EventTypes(Emitted) IN
  \/ types = <<"guardrail_triggered">> /\ response = GuardrailOutcome
  \/ types = <<"faq_answered">> /\ response.handled /\ DOMAIN response = {"handled", "message"}
  \/ types = <<"tool_invoked", "tool_success">> /\ response.handled /\ DOMAIN response = {"handled", "message"}
  \/ types = <<"tool_invoked", "tool_error">> /\ response.handled /\ "tool_error" \in DOMAIN response /\ response.tool_error
  \/ types = <<"escalation_reason">> /\ IsHandoff(response) /\ response.reason \in {"tool_required_but_disabled", "unknown_or_complex"} /\ Emitted[1].payload.reason = response.reason
  \/ types = <<"escalation">> /\ IsHandoff(response) /\ response.reason = "negative_sentiment" /\ Emitted[1].payload.reason = response.reason
  \/ types = <<>> /\ response = prompt_outcome.ret

\* a second call asks for the order id and logs nothing, after a first call
\* that logged tool_invoked and tool_success
C1_Witness == Returned /\ turns = 2 /\ mark = 2 /\ Len(log) = mark /\ log[2].event_type = "tool_success" /\ user = <<"o","r","d","e","r">>

-----------------------------------------------------------------------------
(* C2 *)

\* C2: an input containing an offensive word (in any case, as a substring)
\* gets the fixed guardrail Outcome under every settings value, and the only
\* log entry of the call is guardrail_triggered: no FAQ answer, no tool call,
\* no hand-off.
C2_OffensiveIsBlocked == Returned /\ HasOffensiveWord(user) =>
  /\ response = [handled |-> TRUE, guardrail |-> TRUE, action |-> "block_or_rephrase", message |-> <<"I'm here to help, but I can't respond to offensive language. Could you rephrase your question?">>]
  /\ EventTypes(Emitted) = <<"guardrail_triggered">>

\* an offensive word in upper case, followed by a valid order id
C2_Witness == Returned /\ user = <<"D","A","M","N","a","t","i","o","n"," ","A","1","0","0">> /\ response.handled /\ "guardrail" \in DOMAIN response /\ model_settings.tool_choice = "required"

-----------------------------------------------------------------------------
(* C3 *)

\* C3 as stated: with tool_choice auto, an input with a negative word and no
\* offensive word, FAQ key or order id is handed off with reason
\* negative_sentiment.
C3_NegativeIsHandedOff == Returned /\ model_settings.tool_choice = "auto" /\ HasNegativeWord(user) /\ ~HasOffensiveWord(user) /\ ~HasFaqKey(user) /\ ExtractedId(user) = NoMatch =>
  IsHandoff(response) /\ response.reason = "negative_sentiment"

\* C3 as amended: such an input is handed off, with reason negative_sentiment
\* when its lower-cased text contains "order" (the tool is eligible) and with
\* reason unknown_or_complex when it does not, as for "I am so angry about this".
C3_NegativeReasonByEligibility == Returned /\ model_settings.tool_choice = "auto" /\ HasNegativeWord(user) /\ ~HasOffensiveWord(user) /\ ~HasFaqKey(user) /\ ExtractedId(user) = NoMatch =>
  IsHandoff(response) /\ response.reason = (IF MentionsOrder(user) THEN "negative_sentiment" ELSE "unknown_or_complex")

\* the stated input, under the default settings
C3_Witness == Returned /\ user = <<"I"," ","a","m"," ","s","o"," ","a","n","g","r","y"," ","a","b","o","u","t"," ","t","h","i","s">> /\ model_settings = [tool_choice |-> "auto", metadata |-> <<>>] /\ response.reason = "unknown_or_complex"

-----------------------------------------------------------------------------
(* C4 *)

\* C4: when the first order id extracted from a non-offensive, non-FAQ input
\* is in the order table and tool_choice is auto or required, the outcome is
\* Handled with "Order {id} is currently '{status}'. ETA: {eta}. Items:
\* {items}." built from that record, followed by " (Verified customer)"
\* exactly when metadata.customer_id is non-empty and equals the record's.
C4_OrderStatusMessage == Returned /\ ToolAllowed /\ ~HasOffensiveWord(user) /\ ~HasFaqKey(user) /\ ExtractedId(user) \in DOMAIN orders =>
  LET id   == ExtractedId(user)
      rec  == orders[id]
      base == <<"Order ">> \o id \o <<" is currently '", rec.status, "'. ETA: ", rec.eta, ". Items: ">> \o ItemsText(rec.items) \o <<".">>
      cid  == IF "customer_id" \in DOMAIN model_settings.metadata THEN model_settings.metadata.customer_id ELSE None
      same == cid \notin {None, ""} /\ cid = rec.customer_id
  IN response = [handled |-> TRUE, message |-> IF same THEN base \o <<" (Verified customer)">> ELSE base]

\* "order A100" asked by customer 12345
C4_Witness == Returned /\ user = <<"o","r","d","e","r"," ","A","1","0","0">> /\ dict_get(model_settings.metadata, "customer_id") = "12345" /\ response.message = <<"Order ", "A", "1", "0", "0", " is currently '", "shipped", "'. ETA: ", "2025-09-04", ". Items: ", "Blue T-shirt", ", ", "Cap", ".", " (Verified customer)">>

-----------------------------------------------------------------------------
(* C5 *)

\* C5: when the order id extracted from a non-offensive, non-FAQ input is not
\* in the order table and tool_choice is auto or required, the outcome is
\* Handled with tool_error and the error handler's not-found text naming the
\* id, never a hand-off; a tool_error entry is logged and the order table is
\* unchanged.
C5_UnknownOrderIsHandled == Returned /\ ToolAllowed /\ ~HasOffensiveWord(user) /\ ~HasFaqKey(user) /\ ExtractedId(user) # NoMatch /\ ExtractedId(user) \notin DOMAIN SIMULATED_ORDERS =>
  /\ response = [handled |-> TRUE, tool_error |-> TRUE, message |-> <<"Order ID '">> \o ExtractedId(user) \o <<"' not found. Please check the ID or contact support.">>]
  /\ Emitted # <<>> /\ Emitted[Len(Emitted)].event_type = "tool_error" /\ Emitted[Len(Emitted)].payload.order_id = ExtractedId(user)
  /\ orders = SIMULATED_ORDERS

\* "order Z999"
C5_Witness == Returned /\ user = <<"o","r","d","e","r"," ","Z","9","9","9">> /\ "tool_error" \in DOMAIN response /\ response.message = <<"Order ID '", "Z", "9", "9", "9", "' not found. Please check the ID or contact support.">>

-----------------------------------------------------------------------------
(* C6 *)

\* C6: a non-offensive input containing an FAQ key gets exactly the answer of
\* the first such key in table order, under every tool_choice and whatever
\* else it contains; the tool is not called and the only log entry of the
\* call is faq_answered.
C6_FirstFaqAnswers == Returned /\ ~HasOffensiveWord(user) /\ HasFaqKey(user) =>
  LET q == str_lower(str_strip(user)) IN
  /\ \E i \in 1..Len(faqs) :
       /\ OccursIn(faqs[i].k, q)
       /\ \A j \in 1..(i - 1) : ~OccursIn(faqs[j].k, q)
       /\ response = [handled |-> TRUE, message |-> faqs[i].a]
       /\ Emitted = <<[event_type |-> "faq_answered", payload |-> [faq |-> faqs[i].k]]>>

\* the second key of the table typed before the first
C6_Witness == Returned /\ user = <<"H","o","w"," ","T","o"," ","C","o","n","t","a","c","t"," ","S","u","p","p","o","r","t"," ","w","h","a","t"," ","i","s"," ","y","o","u","r"," ","r","e","t","u","r","n"," ","p","o","l","i","c","y">> /\ response.message = <<"You can return items within 14 days of delivery for a full refund (item must be unused).">>

-----------------------------------------------------------------------------
(* C7 *)

\* C7: for a non-offensive, non-FAQ input that neither contains "order" nor
\* has an order-id token, the outcome is a hand-off with reason
\* tool_required_but_disabled when tool_choice is "required" and
\* unknown_or_complex otherwise, and the tool is not called.
C7_IneligibleIsHandedOff == Returned /\ ~HasOffensiveWord(user) /\ ~HasFaqKey(user) /\ ~MentionsOrder(user) /\ ExtractedId(user) = NoMatch =>
  /\ IsHandoff(response)
  /\ response.reason = (IF model_settings.tool_choice = "required" THEN "tool_required_but_disabled" ELSE "unknown_or_complex")
  /\ ~ToolInvokedIn(Emitted)

\* "tell me a joke" when the tool is required
C7_Witness == Returned /\ user = <<"t","e","l","l"," ","m","e"," ","a"," ","j","o","k","e">> /\ model_settings.tool_choice = "required" /\ response.reason = "tool_required_but_disabled"

-----------------------------------------------------------------------------
(* C8 *)

\* C8: with tool_choice auto or required, a non-offensive, non-FAQ input with
\* a negative word and an order-id token has the tool called and is Handled,
\* never handed off; and a hand-off with reason negative_sentiment happens
\* only when the tool is eligible and allowed and no order id was extracted.
C8_OrderBeforeNegative == Returned =>
  /\ (ToolAllowed /\ ~HasOffensiveWord(user) /\ ~HasFaqKey(user) /\ HasNegativeWord(user) /\ ExtractedId(user) # NoMatch =>
        response.handled /\ ~IsHandoff(response) /\ Emitted # <<>> /\ Emitted[1] = [event_type |-> "tool_invoked", payload |-> [tool |-> "get_order_status", order_id |-> ExtractedId(user)]])
  /\ (IsHandoff(response) /\ response.reason = "negative_sentiment" =>
        ToolAllowed /\ MentionsOrder(user) /\ ExtractedId(user) = NoMatch /\ HasNegativeWord(user))

\* an angry input naming an order that exists
C8_Witness == Returned /\ user = <<"I"," ","a","m"," ","s","o"," ","a","n","g","r","y"," ","a","b","o","u","t"," ","t","h","i","s"," ","B","2","0","1">> /\ response.handled /\ EventTypes(Emitted) = <<"tool_invoked", "tool_success">>

-----------------------------------------------------------------------------
(* C9 *)

ToolEntriesPaired(entries) == \A i \in 1..Len(entries) : entries[i].event_type \in {"tool_success", "tool_error"} =>
  i > 1 /\ entries[i - 1].event_type = "tool_invoked" /\ entries[i - 1].payload.order_id = entries[i].payload.order_id

\* C9: every step leaves the earlier log entries in place, and after it every
\* tool_success or tool_error entry is immediately preceded by a tool_invoked
\* entry with the same order id.
C9_LogAppendOnlyAndPaired == [][IsPrefix(log, log') /\ ToolEntriesPaired(log')]_vars

\* two tool calls in one session, the second for an unknown order
C9_Witness == Len(log) = 4 /\ EventTypes(log) = <<"tool_invoked", "tool_success", "tool_invoked", "tool_error">> /\ log[3].payload.order_id = <<"Z","9","9","9">>

-----------------------------------------------------------------------------
(* C10 *)

\* C10: every Outcome of BotAgent.handle is either handled, or not handled
\* and a hand-off with one of the three reasons; so the CLI never prints its
\* final fallback, and it calls HumanAgent.handle once exactly when the
\* outcome is a hand-off, logging handoff_initiated before
\* human_agent_received and passing the input and the bot's reason.
C10_OutcomeShapeAndHandoff ==
  /\ (pc \in {"dispatch", "printed"} => (response.handled /\ ~IsHandoff(response)) \/ (IsHandoff(response) /\ response.reason \in HandoffReasons))
  /\ (pc = "printed" =>
        /\ printed.message # <<"Sorry, I couldn't help with that.">>
        /\ (IsHandoff(response) <=> Cardinality({i \in 1..Len(Emitted) : Emitted[i].event_type = "human_agent_received"}) = 1)
        /\ (~IsHandoff(response) => /\ ~\E i \in 1..Len(Emitted) : Emitted[i].event_type \in {"human_agent_received", "handoff_initiated"}
                                    /\ printed = [who |-> "Bot", message |-> response.message])
        /\ (IsHandoff(response) => /\ Len(Emitted) >= 2
                                   /\ log[Len(log) - 1].event_type = "handoff_initiated"
                                   /\ log[Len(log)].event_type = "human_agent_received"
                                   /\ handoff_context.user_input = user
                                   /\ handoff_context.reason = response.reason
                                   /\ log[Len(log)].payload.reason = response.reason
                                   /\ printed.who = "Human"))

\* a hand-off for an input that matches nothing
C10_Witness == pc = "printed" /\ user = <<"t","e","l","l"," ","m","e"," ","a"," ","j","o","k","e">> /\ printed.who = "Human" /\ handoff_context.reason = "unknown_or_complex" /\ EventTypes(Emitted) = <<"escalation_reason", "handoff_initiated", "human_agent_received">>

====
